---- MODULE Spec2Model ----
(***************************************************************************)
(* Provider-directory pipeline: validation (field reconciliation), QA      *)
(* scoring and routing, and the versioned SQLite store.                    *)
(*                                                                         *)
(* Confidences are Python floats with at most three decimals; they are     *)
(* represented here in thousandths (0.90 is 900).  Weights are in          *)
(* hundredths, so a weighted sum is in units of 10^-5.                     *)
(***************************************************************************)
EXTENDS Integers, Sequences, FiniteSets, TLC

\* Python's None / JSON null for string-valued fields.
None == "None"

\* Python truthiness of a string-or-None value.
Truthy(v) == v # None /\ v # ""

Min(a, b) == IF a < b THEN a ELSE b
Max(a, b) == IF a > b THEN a ELSE b
Abs(a) == IF a < 0 THEN 0 - a ELSE a

(***************************************************************************)
(* Configuration: src/config.py and the constants of src/agents/qa_agent.py *)
(***************************************************************************)

\* qa_agent.py module constants, the ones decide() compares against.
TH_AUTO == 900
TH_REVIEW == 600

\* config.py defaults, used when the environment variable is not set.
CONFIG_DEFAULT_TH_AUTO == 900
CONFIG_DEFAULT_TH_REVIEW == 600

\* os.getenv(name, default) on an environment e (a function from the set
\* variable names to their values).
getenv(e, name, default) == IF name \in DOMAIN e THEN e[name] ELSE default

\* config.TH_AUTO / config.TH_REVIEW as config.py computes them.
config_TH_AUTO(e) == getenv(e, "TH_AUTO", CONFIG_DEFAULT_TH_AUTO)
config_TH_REVIEW(e) == getenv(e, "TH_REVIEW", CONFIG_DEFAULT_TH_REVIEW)

(***************************************************************************)
(* QA agent: compute_profile_confidence, generate_reasons, decide          *)
(***************************************************************************)

Components ==
  {"identity", "address", "phone", "specialty", "education", "services",
   "affiliations"}

\* Variant of weights: identity weighted 0.20 and address 0.35.
weights_identity_light ==
  [identity |-> 20, address |-> 35, phone |-> 10, specialty |-> 10,
   education |-> 5, services |-> 10, affiliations |-> 10]

weights ==
  [identity |-> 40, address |-> 15, phone |-> 10, specialty |-> 10,
   education |-> 5, services |-> 10, affiliations |-> 10]

\* _get_conf on rec["enrichment"][field]["confidence"]: a JSON null in place
\* of the field's object makes .get raise inside the try, so the default 0.0
\* is returned.
EnrichConf(rec, field) ==
  IF rec.enrichment[field].kind = "null" THEN 0
  ELSE rec.enrichment[field].confidence

\* str.strip().lower() on the specialty strings of the model.
Lower(s) == IF s = "UNKNOWN" \/ s = "Unknown" THEN "unknown" ELSE s

\* The seven component scores (round(x, 3) of a three-decimal value is x).
component_scores(rec) ==
  [identity |-> rec.confidence.identity,
   address |-> rec.confidence.address,
   phone |-> rec.confidence.phone,
   specialty |->
     Max(IF Truthy(rec.specialty) /\ Lower(rec.specialty) # "unknown"
           THEN 600 ELSE 0,
         EnrichConf(rec, "specialty")),
   education |-> EnrichConf(rec, "education"),
   services |-> EnrichConf(rec, "services"),
   affiliations |-> EnrichConf(rec, "affiliations")]

\* Variant of WeightedSum: the specialty term left out of the sum.
WeightedSum_without_specialty(c) ==
  c.identity * weights.identity + c.address * weights.address
  + c.phone * weights.phone
  + c.education * weights.education + c.services * weights.services
  + c.affiliations * weights.affiliations

\* Variant of WeightedSum: the phone term left out of the sum.
WeightedSum_without_phone(c) ==
  c.identity * weights.identity + c.address * weights.address
  + c.specialty * weights.specialty
  + c.education * weights.education + c.services * weights.services
  + c.affiliations * weights.affiliations

\* sum(components[k] * weights[k]), in units of 10^-5.
WeightedSum(c) ==
  c.identity * weights.identity + c.address * weights.address
  + c.phone * weights.phone + c.specialty * weights.specialty
  + c.education * weights.education + c.services * weights.services
  + c.affiliations * weights.affiliations

\* round(x, 3) of a value x given in units of 10^-5, in thousandths.  When the
\* decimal value lies exactly halfway, the binary float sum lies on either
\* side of it, so the result is either neighbour: tie \in {0, 1} picks it.
Round3(x, tie) ==
  LET q == x \div 100
      r == x % 100
  IN  IF r < 50 THEN q ELSE IF r > 50 THEN q + 1 ELSE q + tie

\* compute_profile_confidence: (score, components).
compute_profile_confidence(rec, tie) ==
  LET c == component_scores(rec)
  IN  [score |-> Round3(Max(0, Min(100000, WeightedSum(c))), tie),
       components |-> c]

\* generate_reasons raises AttributeError when services or affiliations is
\* null: rec.get("enrichment", {}).get("services", {}) is then None.
generate_reasons_raises(rec) ==
  \/ rec.enrichment.services.kind = "null"
  \/ rec.enrichment.affiliations.kind = "null"

\* Variant of generate_reasons: the identity comparison alone, without the
\* tests of identity_status before it.
generate_reasons_without_status(rec, c) ==
  (IF c.identity < 700 THEN <<"low_identity_confidence">> ELSE <<>>)
  \o (IF c.address < 600 THEN <<"low_address_confidence">> ELSE <<>>)
  \o (IF rec.enrichment.services.value = <<>> THEN <<"no_services_listed">>
      ELSE <<>>)
  \o (IF rec.enrichment.affiliations.value = <<>> /\ c.affiliations < 500
        THEN <<"no_affiliations">> ELSE <<>>)

\* Variant of generate_reasons: the services confidence tested by an `if` of
\* its own instead of the `elif` of the empty-list test.
generate_reasons_services_independent(rec, c) ==
  LET spec_val == IF rec.specialty = None THEN "" ELSE Lower(rec.specialty)
  IN
  (IF rec.identity_status = "NPI_MISSING" THEN <<"missing_npi">>
   ELSE IF rec.identity_status = "NPI_PROVIDED_UNVERIFIED"
     THEN <<"npi_unverified">>
   ELSE IF c.identity < 700 THEN <<"low_identity_confidence">>
   ELSE <<>>)
  \o (IF c.address < 600 THEN <<"low_address_confidence">> ELSE <<>>)
  \o (IF c.phone < 500 THEN <<"low_phone_confidence">> ELSE <<>>)
  \o (IF (spec_val = "unknown" \/ spec_val = "") /\ c.specialty < 500
        THEN <<"missing_specialty">> ELSE <<>>)
  \o (IF c.education < 400 THEN <<"low_education_info">> ELSE <<>>)
  \o (IF rec.enrichment.services.value = <<>> THEN <<"no_services_listed">>
      ELSE <<>>)
  \o (IF c.services < 500 THEN <<"low_services_confidence">> ELSE <<>>)
  \o (IF rec.enrichment.affiliations.value = <<>> /\ c.affiliations < 500
        THEN <<"no_affiliations">> ELSE <<>>)

generate_reasons(rec, c) ==
  LET spec_val == IF rec.specialty = None THEN "" ELSE Lower(rec.specialty)
  IN
  (IF rec.identity_status = "NPI_MISSING" THEN <<"missing_npi">>
   ELSE IF rec.identity_status = "NPI_PROVIDED_UNVERIFIED"
     THEN <<"npi_unverified">>
   ELSE IF c.identity < 700 THEN <<"low_identity_confidence">>
   ELSE <<>>)
  \o (IF c.address < 600 THEN <<"low_address_confidence">> ELSE <<>>)
  \o (IF c.phone < 500 THEN <<"low_phone_confidence">> ELSE <<>>)
  \o (IF (spec_val = "unknown" \/ spec_val = "") /\ c.specialty < 500
        THEN <<"missing_specialty">> ELSE <<>>)
  \o (IF c.education < 400 THEN <<"low_education_info">> ELSE <<>>)
  \o (IF rec.enrichment.services.value = <<>> THEN <<"no_services_listed">>
      ELSE IF c.services < 500 THEN <<"low_services_confidence">>
      ELSE <<>>)
  \o (IF rec.enrichment.affiliations.value = <<>> /\ c.affiliations < 500
        THEN <<"no_affiliations">> ELSE <<>>)

\* Variant of decision_of: the REVIEW and HOLD bands exchanged.
decision_of_bands_exchanged(rec, score) ==
  IF score >= TH_AUTO THEN "AUTO"
  ELSE IF score >= TH_REVIEW THEN "HOLD"
  ELSE "REVIEW"

\* Variant of decision_of: a record without a resolved identifier is never
\* routed AUTO.
decision_of_identity_gated(rec, score) ==
  IF score >= TH_AUTO /\ rec.identity_status # "NPI_MISSING" THEN "AUTO"
  ELSE IF score >= TH_REVIEW THEN "REVIEW"
  ELSE "HOLD"

\* The if/elif/else of decide on the already computed score.  The thresholds
\* are the module constants of qa_agent.py; config.py is not imported.
decision_of(rec, score) ==
  IF score >= TH_AUTO THEN "AUTO"
  ELSE IF score >= TH_REVIEW THEN "REVIEW"
  ELSE "HOLD"

decide_raises(rec) == generate_reasons_raises(rec)

\* decide(rec): the record with its qa block attached.  (description and
\* explainable_summary repeat the fields below as text and are left out.)
decide(rec, tie) ==
  LET sc == compute_profile_confidence(rec, tie)
  IN  [qa |-> [decision |-> decision_of(rec, sc.score),
               profile_confidence |-> sc.score,
               component_scores |-> sc.components,
               reasons |-> generate_reasons(rec, sc.components)]] @@ rec

(***************************************************************************)
(* Services: npi_services.py and google_maps_services.py.  Each takes the  *)
(* outcome of its HTTP exchange and returns [kind, data]: kind "data" with *)
(* the returned dict, "none" for a returned None, "raise" for an exception *)
(* that leaves the function.                                               *)
(***************************************************************************)

NoData == [name |-> None, address |-> None, phone |-> None, specialty |-> None]

\* fetch_provider_by_npi: a RequestException and result_count == 0 return
\* None; a body with result_count > 0 but no usable "results" raises
\* (KeyError/IndexError are not caught there).
fetch_provider_by_npi(http) ==
  IF http.resp = "ok" THEN [kind |-> "data", data |-> http.data]
  ELSE IF http.resp = "bad_shape" THEN [kind |-> "raise", data |-> NoData]
  ELSE [kind |-> "none", data |-> NoData]

\* verify_address: RequestException, a non-OK status and an empty result list
\* return None; a first result without "geometry" raises KeyError.
verify_address(http) ==
  IF http.resp = "ok"
    THEN [kind |-> "data", formatted_address |-> http.formatted_address]
  ELSE IF http.resp = "bad_shape"
    THEN [kind |-> "raise", formatted_address |-> None]
  ELSE [kind |-> "none", formatted_address |-> None]

\* find_place (with fetch_place_details): RequestException, a non-OK status
\* and no result return None; a JSON body that is not an object raises
\* AttributeError in _handle_google_response.
find_place(http) ==
  IF http.resp = "ok" THEN [kind |-> "data", phone |-> http.phone]
  ELSE IF http.resp = "bad_shape" THEN [kind |-> "raise", phone |-> None]
  ELSE [kind |-> "none", phone |-> None]

(***************************************************************************)
(* Validation agent                                                        *)
(***************************************************************************)

\* Variant of calculate_confidence: the single-source results lowered when
\* has_npi is false, as the two-source results are.
calculate_confidence_single_gated(npi_val, google_val, csv_val, has_npi) ==
  IF Truthy(npi_val) /\ Truthy(google_val) /\ Truthy(csv_val) THEN
    IF npi_val = google_val /\ google_val = csv_val THEN 1000
    ELSE IF npi_val = google_val THEN (IF has_npi THEN 900 ELSE 750)
    ELSE IF google_val = csv_val THEN (IF has_npi THEN 850 ELSE 700)
    ELSE 600
  ELSE IF Truthy(npi_val) /\ Truthy(google_val) THEN
    (IF has_npi THEN 850 ELSE 700)
  ELSE IF Truthy(google_val) THEN (IF has_npi THEN 700 ELSE 550)
  ELSE IF Truthy(npi_val) THEN (IF has_npi THEN 750 ELSE 600)
  ELSE 400

calculate_confidence(npi_val, google_val, csv_val, has_npi) ==
  IF Truthy(npi_val) /\ Truthy(google_val) /\ Truthy(csv_val) THEN
    IF npi_val = google_val /\ google_val = csv_val THEN 1000
    ELSE IF npi_val = google_val THEN (IF has_npi THEN 900 ELSE 750)
    ELSE IF google_val = csv_val THEN (IF has_npi THEN 850 ELSE 700)
    ELSE 600
  ELSE IF Truthy(npi_val) /\ Truthy(google_val) THEN
    (IF has_npi THEN 850 ELSE 700)
  ELSE IF Truthy(google_val) THEN 700
  ELSE IF Truthy(npi_val) THEN 750
  ELSE 400

\* phonenumbers.parse + is_valid_number + format_number(E164) on the phone
\* strings of the model: the two national-format numbers and their E.164
\* forms are valid, every other string is not.
E164(p) ==
  IF p = "(202) 555-0101" \/ p = "+12025550101" THEN "+12025550101"
  ELSE IF p = "(202) 555-0102" \/ p = "+12025550102" THEN "+12025550102"
  ELSE None

normalize_phone(phone) ==
  IF ~Truthy(phone) THEN None
  ELSE IF E164(phone) # None THEN E164(phone)
  ELSE phone

\* str.strip() on the npi strings of the model.
Strip(s) == IF s = "  " THEN "" ELSE s

\* Variant of npi_supplied: the test without npi.strip().
npi_supplied_unstripped(row) == Truthy(row.npi)

npi_supplied(row) == Truthy(row.npi) /\ Truthy(Strip(row.npi))

\* has_npi = npi_data is not None: an identifier was supplied, the lookup
\* returned a record and did not raise (the try/except around the lookup).
has_npi_of(row, o) ==
  npi_supplied(row) /\ fetch_provider_by_npi(o.npi).kind = "data"

identity_status_of(has_npi) == IF has_npi THEN "NPI_VERIFIED" ELSE "NPI_MISSING"

\* The calls of verify_address and find_place are not inside a try.
validate_row_raises(row, o) ==
  \/ verify_address(o.geo).kind = "raise"
  \/ find_place(o.place).kind = "raise"

\* One iteration of the loop of validate_providers: the validated record.
validate_row(row, o) ==
  LET has_npi == has_npi_of(row, o)
      npi_data == IF has_npi THEN fetch_provider_by_npi(o.npi).data ELSE NoData
      google_address_data == verify_address(o.geo)
      google_place_data == find_place(o.place)
      has_geo == google_address_data.kind = "data"
      has_place == google_place_data.kind = "data"
      final_name == IF has_npi THEN npi_data.name ELSE row.full_name
      final_address ==
        IF has_geo THEN google_address_data.formatted_address
        ELSE IF has_npi THEN npi_data.address ELSE row.address
      final_phone_raw ==
        IF has_place /\ Truthy(google_place_data.phone)
          THEN google_place_data.phone
        ELSE IF has_npi THEN npi_data.phone ELSE row.phone
      final_specialty == IF has_npi THEN npi_data.specialty ELSE "Unknown"
  IN  [provider_id |-> row.provider_id,
       npi |-> IF npi_supplied(row) THEN row.npi ELSE None,
       name |-> final_name,
       address |-> final_address,
       phone |-> normalize_phone(final_phone_raw),
       specialty |-> final_specialty,
       confidence |->
         [address |->
            calculate_confidence(
              IF has_npi THEN npi_data.address ELSE None,
              IF has_geo THEN google_address_data.formatted_address ELSE None,
              row.address, has_npi),
          phone |->
            calculate_confidence(
              IF has_npi THEN npi_data.phone ELSE None,
              IF has_place THEN google_place_data.phone ELSE None,
              row.phone, has_npi),
          identity |-> IF has_npi THEN 900 ELSE 600],
       sources |-> [npi |-> has_npi, google_address |-> has_geo,
                    google_place |-> has_place],
       identity_status |-> identity_status_of(has_npi)]

\* validate_providers on an opened CSV: the list written to validated.json,
\* or a raise (nothing is written: the dump follows the loop).
validate_providers_raises(rows, os) ==
  \E i \in 1..Len(rows) : validate_row_raises(rows[i], os[i])

validate_providers(rows, os) ==
  [i \in 1..Len(rows) |-> validate_row(rows[i], os[i])]

(***************************************************************************)
(* Directory agent: the SQLite store.  db is the committed content of the  *)
(* database file: providers and versions are the tables' rows in rowid     *)
(* order, pipeline_runs the rows of that table.  Timestamps (last_updated, *)
(* version_ts, run_ts) are wall-clock readings and are not carried.        *)
(***************************************************************************)

EmptyDb == [providers |-> <<>>, versions |-> <<>>, pipeline_runs |-> <<>>]

\* record.get("qa", {}).get(key, default)
QaConf(rec, default) ==
  IF "qa" \in DOMAIN rec THEN rec.qa.profile_confidence ELSE default
QaDecision(rec, default) ==
  IF "qa" \in DOMAIN rec THEN rec.qa.decision ELSE default

\* abs(old_conf - new_conf) > 0.05 on floats: a decimal difference of exactly
\* 0.05 comes out on either side in binary (0.9 - 0.85 > 0.05, 0.15 - 0.1 <
\* 0.05), so tie \in {0, 1} picks the outcome there.
ConfidenceChanged(old_conf, new_conf, tie) ==
  \/ Abs(old_conf - new_conf) > 50
  \/ Abs(old_conf - new_conf) = 50 /\ tie = 1

\* _get_change_summary.  old is [found, rec]: the row fetched by the SELECT.
\* The result is "Initial record", "No significant changes", or the flags in
\* the order they are appended (the text joins them with "; "; the old and
\* new values formatted into the first two flags are not carried).
_get_change_summary(old, new_rec, tie) ==
  IF ~old.found THEN <<"Initial record">>
  ELSE
    LET changes ==
          (IF ConfidenceChanged(QaConf(old.rec, 0), QaConf(new_rec, 0), tie)
             THEN <<"confidence">> ELSE <<>>)
          \o (IF QaDecision(old.rec, "") # QaDecision(new_rec, "")
                THEN <<"decision">> ELSE <<>>)
          \o (IF old.rec.address # new_rec.address
                THEN <<"address updated">> ELSE <<>>)
          \o (IF old.rec.phone # new_rec.phone
                THEN <<"phone updated">> ELSE <<>>)
          \o (IF old.rec.specialty # new_rec.specialty
                THEN <<"specialty updated">> ELSE <<>>)
    IN  IF changes # <<>> THEN changes ELSE <<"No significant changes">>

\* Variant of select_latest_json: the SELECT without its WHERE clause, the
\* first canonical row of any provider.
select_latest_json_any_provider(db, provider_id) ==
  IF db.providers = <<>> THEN [found |-> FALSE, rec |-> [address |-> None]]
  ELSE [found |-> TRUE, rec |-> db.providers[1].latest_json]

\* SELECT latest_json FROM providers WHERE provider_id = ? ; fetchone().
\* A NULL parameter matches no row.
select_latest_json(db, provider_id) ==
  LET Match(r) == provider_id # None /\ r.provider_id = provider_id
      hits == SelectSeq(db.providers, Match)
  IN  IF hits = <<>> THEN [found |-> FALSE, rec |-> [address |-> None]]
      ELSE [found |-> TRUE, rec |-> hits[1].latest_json]

\* Variant of insert_or_replace: a plain insert into a table without the
\* primary key.
insert_keeping_old(providers, row) == Append(providers, row)

\* INSERT OR REPLACE INTO providers: the row with the same primary key is
\* deleted and the new row added.  provider_id is TEXT PRIMARY KEY without
\* NOT NULL, so a NULL key conflicts with nothing.
insert_or_replace(providers, row) ==
  LET Keep(r) == row.provider_id = None \/ r.provider_id # row.provider_id
  IN  Append(SelectSeq(providers, Keep), row)

\* The searchable columns extracted from the record.
provider_row(provider_id, record) ==
  [provider_id |-> provider_id,
   name |-> record.name,
   npi |-> record.npi,
   identity_status |-> record.identity_status,
   address |-> record.address,
   phone |-> record.phone,
   specialty |->
     IF record.enrichment.specialty.kind # "null"
        /\ Truthy(record.enrichment.specialty.value)
       THEN record.enrichment.specialty.value
     ELSE IF Truthy(record.specialty) THEN record.specialty
     ELSE "Unknown",
   profile_confidence |-> QaConf(record, 0),
   decision |-> QaDecision(record, "HOLD"),
   latest_json |-> record]

version_row(versions, provider_id, record, change_summary) ==
  [id |-> Len(versions) + 1,
   provider_id |-> provider_id,
   record_json |-> record,
   change_summary |-> change_summary]

\* Variant of insert_version: one version row kept per provider_id, the new
\* row taking the place of the provider's earlier ones.
insert_version_latest_only(versions, row) ==
  LET Other(r) == r.provider_id # row.provider_id
  IN  Append(SelectSeq(versions, Other), row)

\* INSERT INTO versions: the table has an AUTOINCREMENT id as its key, the
\* row is added after the existing ones.
insert_version(versions, row) == Append(versions, row)

\* Variant of AfterRaise: the connection in autocommit mode, every statement
\* executed before the exception stays.
AfterRaise_autocommit(committed, pending) == pending

\* What an exception leaves of the connection's open transaction: nothing.
\* The two INSERTs run inside sqlite3's implicit transaction, the only commit
\* is the one after both, and the except clause re-raises, so the caller
\* drops the connection and the pending statements are rolled back.
AfterRaise(committed, pending) == committed

\* _upsert_provider(conn, provider_id, record).  fault names the statement at
\* which the storage fails ("none": it does not); a NULL provider_id fails
\* the INSERT INTO versions (provider_id TEXT NOT NULL).  The result is
\* [raised, db]: whether the call raised and the committed database after it.
_upsert_provider(db, provider_id, record, fault, tie) ==
  LET old == select_latest_json(db, provider_id)
      change_summary == _get_change_summary(old, record, tie)
      tx1 == [db EXCEPT !.providers =
                insert_or_replace(@, provider_row(provider_id, record))]
      tx2 == [tx1 EXCEPT !.versions =
                insert_version(@, version_row(@, provider_id, record, change_summary))]
  IN  IF fault \in {"select", "providers"}
        THEN [raised |-> TRUE, db |-> AfterRaise(db, db)]
      ELSE IF fault = "versions" \/ provider_id = None
        THEN [raised |-> TRUE, db |-> AfterRaise(db, tx1)]
      ELSE IF fault = "commit"
        THEN [raised |-> TRUE, db |-> AfterRaise(db, tx2)]
      ELSE [raised |-> FALSE, db |-> tx2]

\* One enrichment field as enrich_record builds it, and a JSON null in its
\* place.
FieldValue(value, confidence, source) ==
  [kind |-> "dict", value |-> value, confidence |-> confidence,
   source |-> source]
NullField ==
  [kind |-> "null", value |-> None, confidence |-> 0, source |-> None]

\* The enrichment enrich_record starts from.
EmptyEnrichment ==
  [education |-> FieldValue(None, 0, None),
   specialty |-> FieldValue(None, 0, None),
   services |-> FieldValue(<<>>, 0, None),
   affiliations |-> FieldValue(<<>>, 0, None)]

(***************************************************************************)
(* Files under data/: [state, content, fresh].  state is "missing", "ok"   *)
(* or "malformed" (not parseable as JSON); content is the parsed list;     *)
(* fresh tells that the file was written during the current run.           *)
(***************************************************************************)

Written(content) == [state |-> "ok", content |-> content, fresh |-> TRUE]
MissingFile == [state |-> "missing", content |-> <<>>, fresh |-> FALSE]
MalformedFile == [state |-> "malformed", content |-> <<>>, fresh |-> FALSE]

FileNames ==
  {"validated", "enriched", "qa", "review_queue", "email_drafts",
   "qa_summary", "qa_detailed", "directory_json", "directory_csv",
   "hold_queue", "stats", "pipeline_report"}

NoFiles == [f \in FileNames |-> MissingFile]

\* The files as a new run finds them: the content an earlier run left.
Stale(fs) == [f \in FileNames |-> [fs[f] EXCEPT !.fresh = FALSE]]

\* a or b of Python on string-or-None values.
Or(a, b) == IF Truthy(a) THEN a ELSE b

(***************************************************************************)
(* Validation agent as a batch stage.  csv is [state, rows]: state         *)
(* "missing" (no file), "ok", or "no_id_column" (a header without          *)
(* provider_id: DictReader rows then give None for it).  The result is     *)
(* [raised, files].                                                        *)
(***************************************************************************)

validation_stage(csv, fs, os) ==
  IF csv.state = "missing" THEN [raised |-> TRUE, files |-> fs]
  ELSE IF validate_providers_raises(csv.rows, os)
    THEN [raised |-> TRUE, files |-> fs]
  ELSE [raised |-> FALSE,
        files |-> [fs EXCEPT !.validated =
                     Written(validate_providers(csv.rows, os))]]

(***************************************************************************)
(* Enrichment agent.  e is what the web gave for one record: site is       *)
(* "none" (no website found), "unfetched" (http_get failed), "page" (a     *)
(* page was parsed, e.page holds the extracted fields) or "raise" (an      *)
(* exception left enrich_record); e.npi is the registry exchange of the    *)
(* NPI fallback.                                                           *)
(***************************************************************************)

enrich_record_raises(rec, e) == e.site = "raise"

enrich_record(rec, e) ==
  IF e.site = "none" THEN
    LET r == fetch_provider_by_npi(e.npi)
        from_npi ==
          IF Truthy(rec.npi) /\ r.kind = "data" THEN
            [EmptyEnrichment EXCEPT
               !.specialty =
                 FieldValue(Or(r.data.specialty, rec.specialty), 750,
                            "NPI Registry"),
               \* the registry dict has no "credential" key
               !.education = FieldValue(None, 100, "NPI Registry")]
          ELSE EmptyEnrichment
        carried ==
          IF ~Truthy(from_npi.specialty.value)
             /\ Truthy(rec.specialty) /\ rec.specialty # "Unknown"
            THEN [from_npi EXCEPT
                    !.specialty = FieldValue(rec.specialty, 500, "validated")]
          ELSE from_npi
    IN  [enrichment |-> carried] @@ rec
  ELSE IF e.site = "unfetched" THEN [enrichment |-> EmptyEnrichment] @@ rec
  ELSE [enrichment |-> e.page] @@ rec

\* The except branch of enrich_all.
enrich_fallback(rec) ==
  [enrichment |->
     [education |-> FieldValue(None, 0, "error"),
      specialty |-> FieldValue(rec.specialty, 400, "fallback"),
      services |-> FieldValue(<<>>, 0, "error"),
      affiliations |-> FieldValue(<<>>, 0, "error")]] @@ rec

\* enrich_all.  result: "returned_early" (input missing or invalid JSON),
\* "raised" (ZeroDivisionError in the closing log line when the list is
\* empty, after the output was written) or "completed".
enrich_all(fs, es) ==
  IF fs.validated.state # "ok" THEN [result |-> "returned_early", files |-> fs]
  ELSE
    LET records == fs.validated.content
        enriched ==
          [i \in 1..Len(records) |->
             IF enrich_record_raises(records[i], es[i])
               THEN enrich_fallback(records[i])
             ELSE enrich_record(records[i], es[i])]
        out == [fs EXCEPT !.enriched = Written(enriched)]
    IN  IF Len(records) = 0 THEN [result |-> "raised", files |-> out]
        ELSE [result |-> "completed", files |-> out]

(***************************************************************************)
(* QA agent as a batch stage                                               *)
(***************************************************************************)

\* The loop of qa_agent.run: results holds decide(r) for the records on which
\* decide did not raise; the except branch prints and continues.
RECURSIVE qa_results(_, _, _)
qa_results(records, ties, i) ==
  IF i > Len(records) THEN <<>>
  ELSE IF decide_raises(records[i]) THEN qa_results(records, ties, i + 1)
  ELSE <<decide(records[i], ties[i])>> \o qa_results(records, ties, i + 1)

\* The provider_ids of the records of a list routed to one decision.
RECURSIVE IdsWith(_, _)
IdsWith(records, decision) ==
  IF records = <<>> THEN <<>>
  ELSE (IF QaDecision(Head(records), "HOLD") = decision
          THEN <<Head(records).provider_id>> ELSE <<>>)
       \o IdsWith(Tail(records), decision)

RECURSIVE Ids(_)
Ids(records) ==
  IF records = <<>> THEN <<>>
  ELSE <<Head(records).provider_id>> \o Ids(Tail(records))

\* qa_agent.run.  Rows of the queue files and the reports are represented by
\* the provider_ids they list; the summary by its counts.
qa_run(fs, ties) ==
  IF fs.enriched.state # "ok" \/ fs.enriched.content = <<>>
    THEN [result |-> "returned_early", files |-> fs]
  ELSE
    LET results == qa_results(fs.enriched.content, ties, 1)
        review_rows == IdsWith(results, "REVIEW")
        email_texts == IdsWith(results, "HOLD")
    IN  [result |-> "completed",
         files |->
           [fs EXCEPT
              !.qa = Written(results),
              !.review_queue =
                IF review_rows # <<>> THEN Written(review_rows) ELSE @,
              !.email_drafts =
                IF email_texts # <<>> THEN Written(email_texts) ELSE @,
              !.qa_summary =
                Written(<<[total |-> Len(results),
                           auto |-> Len(IdsWith(results, "AUTO")),
                           review |-> Len(review_rows),
                           hold |-> Len(email_texts)]>>),
              !.qa_detailed = Written(Ids(results))]]

(***************************************************************************)
(* Directory agent as a batch stage                                        *)
(***************************************************************************)

\* The for loop of directory_agent.run from record i on.  st is [db,
\* auto_ids, review_rows, hold_rows, raised, failed_at]; an exception of
\* _upsert_provider leaves the loop and the function.
RECURSIVE directory_loop(_, _, _, _, _)
directory_loop(records, faults, ties, i, st) ==
  IF i > Len(records) THEN st
  ELSE
    LET rec == records[i]
        pid == rec.provider_id
        decision == QaDecision(rec, "HOLD")
        r == _upsert_provider(st.db, pid, rec, faults[i], ties[i])
    IN  IF r.raised
          THEN [st EXCEPT !.db = r.db, !.raised = TRUE, !.failed_at = i]
        ELSE directory_loop(records, faults, ties, i + 1,
               [st EXCEPT
                  !.db = r.db,
                  !.auto_ids = IF decision = "AUTO" THEN Append(@, pid) ELSE @,
                  !.review_rows =
                    IF decision = "REVIEW" THEN Append(@, pid) ELSE @,
                  !.hold_rows =
                    IF decision \notin {"AUTO", "REVIEW"}
                      THEN Append(@, pid) ELSE @])

\* SELECT decision, COUNT(*) FROM providers GROUP BY decision, read with
\* decision_counts.get(d, 0).
CountDecision(providers, d) ==
  LET Is(r) == r.decision = d IN Len(SelectSeq(providers, Is))

\* _generate_stats(conn, records): total is the length of the batch, the
\* counts are those of the whole providers table.  (Percentages, the top
\* specialties and the averages are left out.)
_generate_stats(db, records) ==
  [total_processed |-> Len(records),
   by_decision |-> [AUTO |-> CountDecision(db.providers, "AUTO"),
                    REVIEW |-> CountDecision(db.providers, "REVIEW"),
                    HOLD |-> CountDecision(db.providers, "HOLD")]]

\* _record_pipeline_run: one row appended and committed.
_record_pipeline_run(db, stats) ==
  [db EXCEPT !.pipeline_runs =
     Append(@, [run_id |-> Len(@) + 1,
                total_processed |-> stats.total_processed,
                auto_approved |-> stats.by_decision.AUTO,
                review_needed |-> stats.by_decision.REVIEW,
                hold_needed |-> stats.by_decision.HOLD])]

\* The rows _export_db_to_json_csv selects: WHERE decision = 'AUTO' (in table
\* order; ORDER BY name does not order equal names).
export_rows(db) ==
  LET IsAuto(r) == r.decision = "AUTO" IN SelectSeq(db.providers, IsAuto)

RECURSIVE LatestJsons(_)
LatestJsons(rows) ==
  IF rows = <<>> THEN <<>>
  ELSE <<Head(rows).latest_json>> \o LatestJsons(Tail(rows))

\* directory_agent.run.  result: "returned_early", "raised" (an upsert
\* raised; what earlier upserts committed stays) or "completed".
directory_run(fs, db, faults, ties) ==
  IF fs.qa.state # "ok" \/ fs.qa.content = <<>>
    THEN [result |-> "returned_early", files |-> fs, db |-> db,
          failed_at |-> 0, auto_ids |-> <<>>, review_rows |-> <<>>,
          hold_rows |-> <<>>]
  ELSE
    LET records == fs.qa.content
        st == directory_loop(records, faults, ties, 1,
                [db |-> db, auto_ids |-> <<>>, review_rows |-> <<>>,
                 hold_rows |-> <<>>, raised |-> FALSE, failed_at |-> 0])
        stats == _generate_stats(st.db, records)
        db2 == _record_pipeline_run(st.db, stats)
        rows == export_rows(db2)
    IN  IF st.raised
          THEN [result |-> "raised", files |-> fs, db |-> st.db,
                failed_at |-> st.failed_at, auto_ids |-> st.auto_ids,
                review_rows |-> st.review_rows, hold_rows |-> st.hold_rows]
        ELSE [result |-> "completed",
              db |-> db2,
              failed_at |-> 0,
              auto_ids |-> st.auto_ids,
              review_rows |-> st.review_rows,
              hold_rows |-> st.hold_rows,
              files |->
                [fs EXCEPT
                   !.stats = Written(<<stats>>),
                   !.directory_json = Written(LatestJsons(rows)),
                   !.directory_csv =
                     IF rows # <<>> THEN Written(Ids(rows)) ELSE @,
                   !.review_queue =
                     IF st.review_rows # <<>> THEN Written(st.review_rows)
                     ELSE @,
                   !.hold_queue =
                     IF st.hold_rows # <<>> THEN Written(st.hold_rows)
                     ELSE @]]

(***************************************************************************)
(* Input domains                                                           *)
(***************************************************************************)

\* A validated and enriched record, the input of decide.
EnrichedRecord(provider_id, npi, identity_status, address, phone, specialty, confidence, enrichment) ==
  [provider_id |-> provider_id, npi |-> npi, name |-> "Dr A",
   address |-> address, phone |-> phone, specialty |-> specialty,
   confidence |-> confidence,
   sources |-> [npi |-> identity_status = "NPI_VERIFIED",
                google_address |-> FALSE, google_place |-> FALSE],
   identity_status |-> identity_status,
   enrichment |-> enrichment]

Ties == {0, 1}

(***************************************************************************)
(* State                                                                   *)
(***************************************************************************)

VARIABLES
  env,       \* os.environ restricted to TH_AUTO / TH_REVIEW
  qaRec,     \* the record handed to decide
  qaOut,     \* what decide returned for it
  db,        \* the committed content of data/provider_directory.db
  okCalls,   \* history: per provider_id, the snapshots of the upserts that returned
  lastCall,  \* history: the last _upsert_provider call and how it ended
  csv,       \* data/input/providers.csv as the run finds it
  files,     \* the files under data/output
  stage,     \* where run_full_pipeline stands ("idle": not running)
  io,        \* history: the last stage that ran, its inputs and how it ended
  dbAtStart, \* history: db when the current pipeline run started
  confArgs,  \* the arguments of a calculate_confidence call
  confOut    \* what that call returned

vars ==
  <<env, qaRec, qaOut, db, okCalls, lastCall, csv, files, stage, io, dbAtStart,
    confArgs, confOut>>

qaVars == <<env, qaRec, qaOut>>
storeVars == <<okCalls, lastCall>>
pipeVars == <<csv, files, stage, io, dbAtStart>>
confVars == <<confArgs, confOut>>

(***************************************************************************)
(* The versioned store under repeated _upsert_provider calls               *)
(***************************************************************************)

\* Bound on the number of upserts that return, over all providers.
MaxUpserts == 3

StorePIDs == {"P1", "P2", None}

\* Snapshots handed to the store, four per provider_id: one decided AUTO
\* (0.91), one REVIEW (0.617), one HOLD (0.385) at another address and
\* without specialty, and one REVIEW (0.86) that differs from the AUTO one
\* in the phone number and by exactly 0.05 in the score.
StoreInputs(pid) ==
  { EnrichedRecord(pid, "1234567890", "NPI_VERIFIED", "A1", "+12025550101",
                   "Cardiology",
                   [identity |-> 1000, address |-> 1000, phone |-> 1000],
                   [EmptyEnrichment EXCEPT
                      !.specialty = FieldValue("Cardiology", 900, "http://a"),
                      !.services = FieldValue(<<"s1">>, 850, "http://a"),
                      !.affiliations = FieldValue(<<"h1">>, 850, "http://a")]),
    EnrichedRecord(pid, "1234567890", "NPI_VERIFIED", "A1", "+12025550101",
                   "Cardiology",
                   [identity |-> 900, address |-> 850, phone |-> 700],
                   EmptyEnrichment),
    EnrichedRecord(pid, None, "NPI_MISSING", "A2", "+12025550101",
                   "Unknown",
                   [identity |-> 600, address |-> 700, phone |-> 400],
                   EmptyEnrichment),
    EnrichedRecord(pid, "1234567890", "NPI_VERIFIED", "A1", "+12025550102",
                   "Cardiology",
                   [identity |-> 1000, address |-> 1000, phone |-> 500],
                   [EmptyEnrichment EXCEPT
                      !.specialty = FieldValue("Cardiology", 900, "http://a"),
                      !.services = FieldValue(<<"s1">>, 850, "http://a"),
                      !.affiliations = FieldValue(<<"h1">>, 850, "http://a")]) }

StoreRecords == UNION { {decide(r, 0) : r \in StoreInputs(pid)} : pid \in StorePIDs }

StorageFaults == {"none", "select", "providers", "versions", "commit"}

NoCall == [provider_id |-> None, raised |-> FALSE, fault |-> "none", made |-> FALSE]

NotDecided == [status |-> "none"]
NoCsv == [state |-> "missing", rows |-> <<>>]
NoStage == [stage |-> "none"]

QAIdle == env = <<>> /\ qaRec = <<>> /\ qaOut = NotDecided
NotCalled == [status |-> "none"]
ConfIdle == confArgs = <<>> /\ confOut = NotCalled
StoreIdle == okCalls = [p \in StorePIDs |-> <<>>] /\ lastCall = NoCall
PipeIdle ==
  /\ csv = NoCsv
  /\ files = NoFiles
  /\ stage = "idle"
  /\ io = NoStage
  /\ dbAtStart = EmptyDb

InitStore ==
  /\ QAIdle
  /\ ConfIdle
  /\ PipeIdle
  /\ StoreIdle
  /\ db = EmptyDb

TotalOk == Len(okCalls["P1"]) + Len(okCalls["P2"]) + Len(okCalls[None])

\* One call _upsert_provider(conn, rec["provider_id"], rec) on a fresh
\* connection, and the connection dropped afterwards.
Upsert(rec, fault, tie) ==
  LET r == _upsert_provider(db, rec.provider_id, rec, fault, tie)
  IN  /\ TotalOk < MaxUpserts
      /\ db' = r.db
      /\ okCalls' = IF r.raised THEN okCalls
                    ELSE [okCalls EXCEPT ![rec.provider_id] = Append(@, rec)]
      /\ lastCall' = [provider_id |-> rec.provider_id, raised |-> r.raised,
                      fault |-> fault, made |-> TRUE]
      /\ UNCHANGED <<qaVars, confVars, pipeVars>>

NextStore ==
  \E rec \in StoreRecords, fault \in StorageFaults, tie \in Ties :
    Upsert(rec, fault, tie)

SpecStore == InitStore /\ [][NextStore]_vars

\* Rows of a table for one provider_id.
RowsOf(table, pid) ==
  LET Is(r) == r.provider_id = pid IN SelectSeq(table, Is)

(***************************************************************************)
(* decide on one record                                                    *)
(***************************************************************************)

\* Environments: TH_AUTO and TH_REVIEW each unset or overridden.
EnvOverrides == [TH_AUTO |-> 800, TH_REVIEW |-> 500]
EnvSet ==
  { [n \in D |-> EnvOverrides[n]] : D \in SUBSET {"TH_AUTO", "TH_REVIEW"} }

QAEnrichments ==
  { EmptyEnrichment,
    \* the NPI fallback of enrich_record
    [EmptyEnrichment EXCEPT
       !.specialty = FieldValue("Cardiology", 750, "NPI Registry"),
       !.education = FieldValue(None, 100, "NPI Registry")],
    \* a parsed web page
    [education |-> FieldValue("MD", 750, "http://a"),
     specialty |-> FieldValue("Cardiology", 900, "http://a"),
     services |-> FieldValue(<<"s1">>, 850, "http://a"),
     affiliations |-> FieldValue(<<"h1">>, 850, "http://a")],
    [education |-> FieldValue(None, 200, "http://a"),
     specialty |-> FieldValue(None, 300, "http://a"),
     services |-> FieldValue(<<"s1">>, 300, "http://a"),
     affiliations |-> FieldValue(<<>>, 150, "http://a")],
    [education |-> FieldValue("MD", 1000, "http://a"),
     specialty |-> FieldValue("Cardiology", 1000, "http://a"),
     services |-> FieldValue(<<"s1">>, 1000, "http://a"),
     affiliations |-> FieldValue(<<"h1">>, 1000, "http://a")],
    \* the fallback of enrich_all
    [education |-> FieldValue(None, 0, "error"),
     specialty |-> FieldValue("Unknown", 400, "fallback"),
     services |-> FieldValue(<<>>, 0, "error"),
     affiliations |-> FieldValue(<<>>, 0, "error")],
    \* "services": null in the input file
    [EmptyEnrichment EXCEPT !.services = NullField] }

IdentityStatuses == {"NPI_VERIFIED", "NPI_PROVIDED_UNVERIFIED", "NPI_MISSING"}

\* Records of an input file whose confidence numbers are not in [0, 1]:
\* _get_conf returns any int or float it finds.
OutOfRangeInputs ==
  { EnrichedRecord("P1", "1234567890", "NPI_VERIFIED", "A1", "+12025550101", "Cardiology",
                   [identity |-> i, address |-> a, phone |-> 1000],
                   [EmptyEnrichment EXCEPT
                      !.services = FieldValue(<<"s1">>, sv, "http://a")]) :
      i \in {-200, 1500}, a \in {1000, 1200}, sv \in {800, 1300} }

QAInputs ==
  { EnrichedRecord("P1", IF st = "NPI_MISSING" THEN None ELSE "1234567890",
                   st, "A1", "+12025550101", sp,
                   [identity |-> i, address |-> a, phone |-> ph], e) :
      st \in IdentityStatuses, sp \in {"Unknown", "Cardiology"},
      i \in {0, 600, 900, 1000}, a \in {0, 600, 750, 1000},
      ph \in {0, 500, 1000}, e \in QAEnrichments }
  \cup OutOfRangeInputs

InitQA ==
  /\ env \in EnvSet
  /\ qaRec \in QAInputs
  /\ qaOut = NotDecided
  /\ ConfIdle
  /\ db = EmptyDb
  /\ StoreIdle
  /\ PipeIdle

\* out = decide(r) inside the try of qa_agent.run.
Decide(tie) ==
  /\ qaOut.status = "none"
  /\ qaOut' = IF decide_raises(qaRec) THEN [status |-> "raised"]
              ELSE [status |-> "ok", rec |-> decide(qaRec, tie)]
  /\ UNCHANGED <<env, qaRec, confVars, db, storeVars, pipeVars>>

NextQA == \E tie \in Ties : Decide(tie)

SpecQA == InitQA /\ [][NextQA]_vars

(***************************************************************************)
(* calculate_confidence on one triple of values                            *)
(***************************************************************************)

\* Values a source hands to calculate_confidence: None, the empty string, or
\* a text; the CSV value ranges over one more text that no source returns.
SourceValues == {None, "", "A1", "A2"}
CallerValues == SourceValues \cup {"A3"}

InitConfidence ==
  /\ QAIdle
  /\ StoreIdle
  /\ PipeIdle
  /\ db = EmptyDb
  /\ confArgs \in [npi_val : SourceValues, google_val : SourceValues,
                   csv_val : CallerValues, has_npi : BOOLEAN]
  /\ confOut = NotCalled

\* calculate_confidence(npi_val, google_val, csv_val, has_npi)
CalculateConfidence ==
  /\ confOut.status = "none"
  /\ confOut' = [status |-> "ok",
                 value |-> calculate_confidence(confArgs.npi_val, confArgs.google_val,
                                                confArgs.csv_val, confArgs.has_npi)]
  /\ UNCHANGED <<qaVars, storeVars, pipeVars, db, confArgs>>

NextConfidence == CalculateConfidence

SpecConfidence == InitConfidence /\ [][NextConfidence]_vars

(***************************************************************************)
(* The stages as steps.  at is the value of stage at which the step is     *)
(* taken, onReturn / onRaise what stage becomes when the stage function    *)
(* returns / raises: the next stage and "failed" inside run_full_pipeline  *)
(* (its try/except), "idle" for an agent run on its own.                   *)
(***************************************************************************)

\* Sequences over S of length 0..n.
SeqUpTo(S, n) == UNION { [1..k -> S] : k \in 0..n }

ValidationStep(RowOuts, at, onReturn, onRaise) ==
  /\ stage = at
  /\ \E os \in [1..Len(csv.rows) -> RowOuts] :
       LET r == validation_stage(csv, files, os)
       IN  /\ files' = r.files
           /\ stage' = IF r.raised THEN onRaise ELSE onReturn
           /\ io' = [stage |-> "validation", raised |-> r.raised,
                     outcomes |-> os]
  /\ UNCHANGED <<qaVars, confVars, storeVars, db, csv, dbAtStart>>

EnrichmentStep(EnrichOuts, at, onReturn, onRaise) ==
  /\ stage = at
  /\ \E es \in [1..Len(files.validated.content) -> EnrichOuts] :
       LET r == enrich_all(files, es)
       IN  /\ files' = r.files
           /\ stage' = IF r.result = "raised" THEN onRaise ELSE onReturn
           /\ io' = [stage |-> "enrichment", result |-> r.result,
                     input |-> files.validated, outcomes |-> es]
  /\ UNCHANGED <<qaVars, confVars, storeVars, db, csv, dbAtStart>>

QAStep(at, onReturn) ==
  /\ stage = at
  /\ \E ties \in [1..Len(files.enriched.content) -> Ties] :
       LET r == qa_run(files, ties)
       IN  /\ files' = r.files
           /\ io' = [stage |-> "qa", result |-> r.result,
                     input |-> files.enriched]
  /\ stage' = onReturn
  /\ UNCHANGED <<qaVars, confVars, storeVars, db, csv, dbAtStart>>

\* Bound on the rows of the versions table.
MaxVersions == 3

\* report tells whether the step is followed by _generate_pipeline_report.
DirectoryStep(Faults, at, onReturn, onRaise, report) ==
  /\ stage = at
  /\ Len(db.versions) + Len(files.qa.content) <= MaxVersions
  /\ \E faults \in [1..Len(files.qa.content) -> Faults],
        ties \in [1..Len(files.qa.content) -> Ties] :
       LET r == directory_run(files, db, faults, ties)
       IN  /\ db' = r.db
           /\ files' = IF report /\ r.result # "raised"
                         THEN [r.files EXCEPT !.pipeline_report = Written(<<>>)]
                       ELSE r.files
           /\ stage' = IF r.result = "raised" THEN onRaise ELSE onReturn
           /\ io' = [stage |-> "directory", result |-> r.result,
                     failed_at |-> r.failed_at, faults |-> faults,
                     auto_ids |-> r.auto_ids, review_rows |-> r.review_rows,
                     hold_rows |-> r.hold_rows]
  /\ UNCHANGED <<qaVars, confVars, storeVars, csv, dbAtStart>>

(***************************************************************************)
(* validate_providers on a batch                                           *)
(***************************************************************************)

\* Bound on the rows of a CSV given to the validation stage alone.
MaxRows == 2

Row(provider_id, npi, phone, address) ==
  [provider_id |-> provider_id, full_name |-> "Dr A", phone |-> phone,
   address |-> address, city |-> "Town", state |-> "ST", npi |-> npi]

RegistryRecord ==
  [name |-> "Dr A Reg", address |-> "A1", phone |-> "(202) 555-0101",
   specialty |-> "Cardiology"]

NpiHttp(resp) == [resp |-> resp, data |-> IF resp = "ok" THEN RegistryRecord ELSE NoData]

\* A registry record whose practice address carries no telephone_number.
RegistryRecordNoPhone == [RegistryRecord EXCEPT !.phone = None]

NpiHttpNoPhone == [resp |-> "ok", data |-> RegistryRecordNoPhone]
GeoHttp(resp, a) == [resp |-> resp, formatted_address |-> a]
PlaceHttp(resp, ph) == [resp |-> resp, phone |-> ph]

ValidateRows == { Row("P1", n, "(202) 555-0101", "A1") : n \in {"", "  ", "1234567890"} }

ValidateOuts ==
  [npi : {NpiHttp("not_found"), NpiHttp("bad_shape"), NpiHttp("ok"),
          NpiHttpNoPhone},
   geo : {GeoHttp("no_results", None), GeoHttp("bad_shape", None),
          GeoHttp("ok", "A2")},
   place : {PlaceHttp("no_results", None), PlaceHttp("bad_shape", None),
            PlaceHttp("ok", "(202) 555-0102")}]

InitValidate ==
  /\ QAIdle
  /\ ConfIdle
  /\ StoreIdle
  /\ db = EmptyDb
  /\ dbAtStart = EmptyDb
  /\ csv \in {NoCsv} \cup { [state |-> "ok", rows |-> rs] : rs \in SeqUpTo(ValidateRows, MaxRows) }
  /\ files = NoFiles
  /\ stage = "idle"
  /\ io = NoStage

\* python validation_agent.py, once.
ValidateProviders ==
  /\ io.stage = "none"
  /\ ValidationStep(ValidateOuts, "idle", "idle", "idle")

NextValidate == ValidateProviders

SpecValidate == InitValidate /\ [][NextValidate]_vars

(***************************************************************************)
(* enrich_all and qa_agent.run on batches                                  *)
(***************************************************************************)

\* Bound on the records of a batch file.
MaxBatch == 2

\* Validated records as validate_row produces them.
ValidatedRecords ==
  { validate_row(Row("P1", "", "(202) 555-0101", "A1"),
                 [npi |-> NpiHttp("not_found"),
                  geo |-> GeoHttp("no_results", None),
                  place |-> PlaceHttp("no_results", None)]),
    validate_row(Row("P2", "1234567890", "(202) 555-0101", "A1"),
                 [npi |-> NpiHttp("ok"),
                  geo |-> GeoHttp("ok", "A1"),
                  place |-> PlaceHttp("ok", "(202) 555-0101")]) }

PageEnrichment ==
  [education |-> FieldValue("MD", 750, "http://a"),
   specialty |-> FieldValue("Cardiology", 900, "http://a"),
   services |-> FieldValue(<<"s1">>, 850, "http://a"),
   affiliations |-> FieldValue(<<"h1">>, 850, "http://a")]

EnrichOut(site, resp) ==
  [site |-> site, npi |-> NpiHttp(resp), page |-> PageEnrichment]

EnrichOuts ==
  {EnrichOut("none", "ok"), EnrichOut("none", "not_found"),
   EnrichOut("unfetched", "not_found"), EnrichOut("page", "not_found"),
   EnrichOut("raise", "not_found")}

\* Records of an enriched.json given to the QA agent: enriched records and
\* records whose "services" is null.
EnrichedInputs ==
  { [enrichment |-> e] @@ v :
      v \in ValidatedRecords,
      e \in {PageEnrichment, [EmptyEnrichment EXCEPT !.services = NullField]} }

InputFile(content) == [state |-> "ok", content |-> content, fresh |-> FALSE]

InitBatch ==
  /\ QAIdle
  /\ ConfIdle
  /\ StoreIdle
  /\ db = EmptyDb
  /\ dbAtStart = EmptyDb
  /\ csv = NoCsv
  /\ stage = "idle"
  /\ io = NoStage
  /\ \E v \in {MissingFile, MalformedFile}
            \cup {InputFile(c) : c \in SeqUpTo(ValidatedRecords, MaxBatch)},
        e \in {MissingFile, MalformedFile}
            \cup {InputFile(c) : c \in SeqUpTo(EnrichedInputs, MaxBatch)} :
       files = [NoFiles EXCEPT !.validated = v, !.enriched = e]

\* python enrichment_agent.py
EnrichAll ==
  /\ io.stage # "qa"
  /\ EnrichmentStep(EnrichOuts, "idle", "idle", "idle")

\* python qa_agent.py
RunQA ==
  /\ io.stage # "qa"
  /\ QAStep("idle", "idle")

NextBatch == EnrichAll \/ RunQA

SpecBatch == InitBatch /\ [][NextBatch]_vars

(***************************************************************************)
(* directory_agent.run on successive qa.json files                         *)
(***************************************************************************)

\* Records of a qa.json: P1 decided AUTO and HOLD (at another address), P2
\* decided REVIEW, and a record without provider_id.
DirectoryRecords ==
  { r \in StoreRecords :
      \/ r.provider_id = "P1" /\ r.qa.decision \in {"AUTO", "HOLD"}
      \/ r.provider_id = "P2" /\ r.qa.decision = "REVIEW"
           /\ r.phone = "+12025550101"
      \/ r.provider_id = None /\ r.qa.decision = "HOLD" }

DirectoryBatches == SeqUpTo(DirectoryRecords, MaxBatch)

\* Storage failures injected into a directory run: none, or at the INSERT
\* INTO versions.
DirectoryFaults == {"none", "versions"}

InitDirectory ==
  /\ QAIdle
  /\ ConfIdle
  /\ StoreIdle
  /\ db = EmptyDb
  /\ dbAtStart = EmptyDb
  /\ csv = NoCsv
  /\ stage = "idle"
  /\ io = NoStage
  /\ files \in { [NoFiles EXCEPT !.qa = q] :
                   q \in {MissingFile} \cup {InputFile(c) : c \in DirectoryBatches} }

\* python directory_agent.py
RunDirectory ==
  DirectoryStep(DirectoryFaults, "idle", "idle", "idle", FALSE)

\* qa.json replaced by the output of another QA run.
NewQaFile ==
  /\ io.stage = "directory"
  /\ \E c \in DirectoryBatches :
       files' = [files EXCEPT !.qa = InputFile(c)]
  /\ io' = NoStage
  /\ UNCHANGED <<qaVars, confVars, storeVars, db, csv, stage, dbAtStart>>

NextDirectory == RunDirectory \/ NewQaFile

SpecDirectory == InitDirectory /\ [][NextDirectory]_vars

(***************************************************************************)
(* PipelineOrchestrator.run_full_pipeline, run after run                   *)
(***************************************************************************)

PipelineRows == {Row("P1", "1234567890", "(202) 555-0101", "A1")}

\* The CSV files a run may find: none, one with a header that lacks the
\* provider_id column, or a well-formed one with 0..MaxBatch rows.
PipelineCsvs ==
  {NoCsv,
   [state |-> "no_id_column",
    rows |-> <<Row(None, "", "(202) 555-0101", "A1")>>]}
  \cup { [state |-> "ok", rows |-> rs] : rs \in SeqUpTo(PipelineRows, MaxBatch) }

PipelineRowOuts ==
  [npi : {NpiHttp("ok")},
   geo : {GeoHttp("ok", "A1"), GeoHttp("bad_shape", None)},
   place : {PlaceHttp("ok", "(202) 555-0101")}]

PipelineEnrichOuts == {EnrichOut("page", "not_found"), EnrichOut("raise", "not_found")}

Init ==
  /\ QAIdle
  /\ ConfIdle
  /\ StoreIdle
  /\ PipeIdle
  /\ db = EmptyDb

\* run_full_pipeline is called: the run starts with stage 1.
StartPipeline ==
  /\ stage \in {"idle", "done", "failed"}
  /\ \E c \in PipelineCsvs :
       /\ Len(db.versions) + Len(c.rows) <= MaxVersions
       /\ csv' = c
  /\ files' = Stale(files)
  /\ stage' = "validation"
  /\ io' = NoStage
  /\ dbAtStart' = db
  /\ UNCHANGED <<qaVars, confVars, storeVars, db>>

StageValidation ==
  ValidationStep(PipelineRowOuts, "validation", "enrichment", "failed")

StageEnrichment ==
  EnrichmentStep(PipelineEnrichOuts, "enrichment", "qa", "failed")

StageQA == QAStep("qa", "directory")

StageDirectory ==
  DirectoryStep(DirectoryFaults, "directory", "done", "failed", TRUE)

Next ==
  \/ StartPipeline
  \/ StageValidation
  \/ StageEnrichment
  \/ StageQA
  \/ StageDirectory

Spec == Init /\ [][Next]_vars

(***************************************************************************)
(* Properties                                                              *)
(***************************************************************************)

\* C1: the decision attached by decide is AUTO exactly when
\* profile_confidence >= TH_AUTO, REVIEW exactly when TH_REVIEW <=
\* profile_confidence < TH_AUTO, and HOLD exactly when profile_confidence <
\* TH_REVIEW, whatever the other fields of the record are.
C1_DecisionFromScore ==
  qaOut.status = "ok" =>
    LET q == qaOut.rec.qa IN
      /\ q.decision \in {"AUTO", "REVIEW", "HOLD"}
      /\ (q.decision = "AUTO") <=> (q.profile_confidence >= TH_AUTO)
      /\ (q.decision = "REVIEW") <=>
           (TH_REVIEW <= q.profile_confidence /\ q.profile_confidence < TH_AUTO)
      /\ (q.decision = "HOLD") <=> (q.profile_confidence < TH_REVIEW)

\* A record without a resolved identifier whose score reaches TH_AUTO.
C1_Witness ==
  /\ qaOut.status = "ok"
  /\ qaOut.rec.identity_status = "NPI_MISSING"
  /\ qaOut.rec.qa.reasons # <<>>
  /\ qaOut.rec.qa.profile_confidence >= TH_AUTO
  /\ qaOut.rec.qa.decision = "AUTO"

\* C2: after N upserts of one provider_id that returned, versions holds
\* exactly N rows for it and providers exactly one (none when N = 0), and
\* that row carries the snapshot, decision and profile_confidence of the
\* most recent of them.
C2_UpsertRows ==
  \A p \in StorePIDs :
    LET n == Len(okCalls[p])
        rows == RowsOf(db.providers, p)
    IN  /\ Len(RowsOf(db.versions, p)) = n
        /\ Len(rows) = IF n = 0 THEN 0 ELSE 1
        /\ n > 0 =>
             /\ rows[1].latest_json = okCalls[p][n]
             /\ rows[1].decision = okCalls[p][n].qa.decision
             /\ rows[1].profile_confidence = okCalls[p][n].qa.profile_confidence

\* Three upserts of P1, the first two with the same snapshot.
C2_Witness ==
  /\ Len(okCalls["P1"]) = 3
  /\ okCalls["P1"][1] = okCalls["P1"][2]
  /\ okCalls["P1"][3] # okCalls["P1"][2]
  /\ Len(db.versions) = 3

\* C3: in every committed state of the database, also the one an upsert
\* that failed at any of its statements leaves, each providers row has a
\* versions row of the same provider_id with the same snapshot, namely the
\* newest one of that provider_id, and each versions row belongs to a
\* provider that has a providers row.
C3_UpsertAtomic ==
  /\ \A i \in 1..Len(db.providers) :
       LET vs == RowsOf(db.versions, db.providers[i].provider_id)
       IN  /\ vs # <<>>
           /\ vs[Len(vs)].record_json = db.providers[i].latest_json
  /\ \A j \in 1..Len(db.versions) :
       RowsOf(db.providers, db.versions[j].provider_id) # <<>>

\* An upsert that failed after its INSERT OR REPLACE INTO providers, on a
\* database that already holds a row of that provider with another snapshot.
C3_Witness ==
  /\ lastCall.made /\ lastCall.raised
  /\ lastCall.fault \in {"versions", "commit"}
  /\ RowsOf(db.providers, lastCall.provider_id) # <<>>

\* C9 as claimed: decide routes by the configured thresholds, config.py's
\* TH_AUTO / TH_REVIEW (environment override, else 0.90 / 0.60).
C9_ConfiguredThresholds ==
  qaOut.status = "ok" =>
    LET q == qaOut.rec.qa IN
      q.decision =
        IF q.profile_confidence >= config_TH_AUTO(env) THEN "AUTO"
        ELSE IF q.profile_confidence >= config_TH_REVIEW(env) THEN "REVIEW"
        ELSE "HOLD"

ScenarioA ==
  [identity |-> 1000, address |-> 1000, phone |-> 1000, specialty |-> 600,
   education |-> 0, services |-> 0, affiliations |-> 0]

\* C10 as claimed: Scenario A scores 0.95 and is routed AUTO.
C10_ScenarioA_Claimed ==
  (qaOut.status = "ok" /\ qaOut.rec.qa.component_scores = ScenarioA) =>
    /\ qaOut.rec.qa.profile_confidence = 950
    /\ qaOut.rec.qa.decision = "AUTO"

\* C10 amended: a record with the component values of Scenario A gets
\* profile_confidence 0.71 (0.40 + 0.15 + 0.10 + 0.06) and decision REVIEW.
C10_ScenarioA ==
  (qaOut.status = "ok" /\ qaOut.rec.qa.component_scores = ScenarioA) =>
    /\ qaOut.rec.qa.profile_confidence = 710
    /\ qaOut.rec.qa.decision = "REVIEW"

C10_Witness ==
  /\ qaOut.status = "ok"
  /\ qaOut.rec.qa.component_scores = ScenarioA
  /\ env = <<>>

\* C4 as claimed: a batch stage that ran to its end wrote exactly one result
\* per input record, in input order, also for the records on which the
\* per-record processing raised.
C4_OneResultPerRecord ==
  /\ (io.stage = "enrichment" /\ io.result = "completed") =>
       Ids(files.enriched.content) = Ids(io.input.content)
  /\ (io.stage = "qa" /\ io.result = "completed") =>
       Ids(files.qa.content) = Ids(io.input.content)

\* C5 as claimed: when the upsert of one record of the batch fails, the
\* directory run still upserts every other record of the batch whose own
\* upsert meets no storage failure.
C5_StorageErrorContinues ==
  (io.stage = "directory" /\ io.failed_at > 0) =>
    \A i \in 1..Len(files.qa.content) :
      (i # io.failed_at /\ io.faults[i] = "none"
       /\ files.qa.content[i].provider_id # None) =>
        \E j \in 1..Len(db.versions) :
          db.versions[j].record_json = files.qa.content[i]

\* C6 as claimed: validate_providers on a readable CSV writes one validated
\* record per row, and a source whose lookup raised for a row counts as
\* absent in that row's record.
C6_CollaboratorErrorsAbsorbed ==
  (io.stage = "validation" /\ csv.state = "ok") =>
    /\ ~io.raised
    /\ files.validated.state = "ok"
    /\ Len(files.validated.content) = Len(csv.rows)
    /\ \A i \in 1..Len(csv.rows) :
         LET o == io.outcomes[i]
             v == files.validated.content[i]
         IN  /\ o.npi.resp = "bad_shape" => ~v.sources.npi
             /\ o.geo.resp = "bad_shape" => ~v.sources.google_address
             /\ o.place.resp = "bad_shape" => ~v.sources.google_place

\* C7 as claimed: a pipeline run whose batch input is missing or malformed
\* executes no stage after the one that met it, writes no file and leaves the
\* store as it was.
C7_InputErrorAborts ==
  (stage # "idle" /\ csv.state \in {"missing", "no_id_column"}) =>
    /\ stage \in {"validation", "failed"}
    /\ \A f \in FileNames : ~files[f].fresh
    /\ db = dbAtStart

\* C8 as claimed: identity_status is NPI_VERIFIED when an identifier was
\* supplied and the registry returned a record, NPI_PROVIDED_UNVERIFIED when
\* one was supplied and the registry returned nothing or the lookup raised,
\* NPI_MISSING when none was supplied.
C8_IdentityStatus ==
  (io.stage = "validation" /\ ~io.raised) =>
    \A i \in 1..Len(csv.rows) :
      files.validated.content[i].identity_status =
        IF ~npi_supplied(csv.rows[i]) THEN "NPI_MISSING"
        ELSE IF io.outcomes[i].npi.resp = "ok" THEN "NPI_VERIFIED"
        ELSE "NPI_PROVIDED_UNVERIFIED"

\* C11 as claimed: the profile_confidence decide attaches lies in [0, 1] and
\* so does each of the seven component_scores (in thousandths: 0..1000).
C11_ScoresInUnitInterval ==
  qaOut.status = "ok" =>
    /\ qaOut.rec.qa.profile_confidence \in 0..1000
    /\ \A k \in Components : qaOut.rec.qa.component_scores[k] \in 0..1000

\* The order HOLD < REVIEW < AUTO.
DecisionRank(d) == IF d = "AUTO" THEN 2 ELSE IF d = "REVIEW" THEN 1 ELSE 0

\* Every three-decimal score in [0, 1].
AllScores == 0..1000

\* C12: with the thresholds fixed, the decision is monotone in the score: no
\* score above the one decide computed gets a lower decision than the one
\* decide attached, and no score below it a higher one.
C12_DecisionMonotone ==
  qaOut.status = "ok" =>
    \A s \in AllScores :
      /\ s >= qaOut.rec.qa.profile_confidence =>
           DecisionRank(decision_of(qaRec, s)) >= DecisionRank(qaOut.rec.qa.decision)
      /\ s <= qaOut.rec.qa.profile_confidence =>
           DecisionRank(decision_of(qaRec, s)) <= DecisionRank(qaOut.rec.qa.decision)

\* A record decided REVIEW exactly at TH_REVIEW: scores below it are HOLD,
\* scores from TH_AUTO on are AUTO.
C12_Witness ==
  /\ qaOut.status = "ok"
  /\ qaOut.rec.qa.profile_confidence = TH_REVIEW
  /\ qaOut.rec.qa.decision = "REVIEW"
  /\ decision_of(qaRec, TH_REVIEW - 1) = "HOLD"
  /\ decision_of(qaRec, TH_AUTO) = "AUTO"

\* C13 as claimed: a record with identity_status NPI_VERIFIED whose
\* enrichment specialty carries a registry source tag and confidence >= 0.70
\* gets as profile_confidence the rounded weighted sum plus a flat 0.05,
\* capped at 1.0, and its decision is taken on that score.
C13_RegistryUplift ==
  (/\ qaOut.status = "ok"
   /\ qaRec.identity_status = "NPI_VERIFIED"
   /\ qaRec.enrichment.specialty.kind = "dict"
   /\ qaRec.enrichment.specialty.source = "NPI Registry"
   /\ qaRec.enrichment.specialty.confidence >= 700) =>
    \E tie \in Ties :
      LET base == compute_profile_confidence(qaRec, tie).score
          uplifted == Min(1000, base + 50)
      IN  /\ qaOut.rec.qa.profile_confidence = uplifted
          /\ qaOut.rec.qa.decision = decision_of(qaRec, uplifted)

\* C14 as claimed: the pipeline_runs row recorded by a directory run that
\* completed describes the batch of that run: total_processed is the number
\* of records of the batch and the AUTO, REVIEW and HOLD counts add up to it.
C14_StatsDescribeBatch ==
  (io.stage = "directory" /\ io.result = "completed") =>
    LET run == db.pipeline_runs[Len(db.pipeline_runs)]
    IN  /\ run.total_processed = Len(files.qa.content)
        /\ run.auto_approved + run.review_needed + run.hold_needed
             = run.total_processed

\* C15 as claimed: in each validated record the address and the phone are the
\* registry's value when the registry supplied one, otherwise the value of
\* the address / place lookup when it supplied one, otherwise the value of
\* the CSV row (the phone as normalize_phone returns it), and the name is the
\* registry's whenever the registry supplied one.
C15_RegistryValueFirst ==
  (io.stage = "validation" /\ ~io.raised) =>
    \A i \in 1..Len(csv.rows) :
      LET row == csv.rows[i]
          o == io.outcomes[i]
          v == files.validated.content[i]
          reg == IF has_npi_of(row, o) THEN fetch_provider_by_npi(o.npi).data ELSE NoData
          geo == verify_address(o.geo)
          place == find_place(o.place)
      IN  /\ v.address =
               IF Truthy(reg.address) THEN reg.address
               ELSE IF geo.kind = "data" /\ Truthy(geo.formatted_address)
                 THEN geo.formatted_address
               ELSE row.address
          /\ v.phone =
               normalize_phone(
                 IF Truthy(reg.phone) THEN reg.phone
                 ELSE IF place.kind = "data" /\ Truthy(place.phone) THEN place.phone
                 ELSE row.phone)
          /\ Truthy(reg.name) => v.name = reg.name

\* C16 as claimed: when the registry value and the mapping value are both
\* present and equal and the caller value differs from them or is absent,
\* calculate_confidence returns 0.90 if has_npi and 0.75 otherwise.
C16_RegistryMappingAgree ==
  (/\ confOut.status = "ok"
   /\ Truthy(confArgs.npi_val) /\ Truthy(confArgs.google_val)
   /\ confArgs.npi_val = confArgs.google_val
   /\ (~Truthy(confArgs.csv_val) \/ confArgs.csv_val # confArgs.npi_val)) =>
    confOut.value = IF confArgs.has_npi THEN 900 ELSE 750

\* C17 as claimed: when the mapping value and the caller value are both
\* present and equal and the registry value differs from them or is absent,
\* calculate_confidence returns 0.85 if has_npi and 0.70 otherwise.
C17_MappingCallerAgree ==
  (/\ confOut.status = "ok"
   /\ Truthy(confArgs.google_val) /\ Truthy(confArgs.csv_val)
   /\ confArgs.google_val = confArgs.csv_val
   /\ (~Truthy(confArgs.npi_val) \/ confArgs.npi_val # confArgs.google_val)) =>
    confOut.value = IF confArgs.has_npi THEN 850 ELSE 700

\* C18: for every provider_id, the version row appended by its first upsert
\* that returned (no canonical row existed before it) has change_summary
\* "Initial record", and the row appended by each later one has the summary
\* _get_change_summary computes from the snapshot of the immediately
\* preceding upsert of that provider_id and the new one, never "Initial
\* record".
C18_SummaryAgainstPrevious ==
  \A p \in StorePIDs :
    LET vs == RowsOf(db.versions, p)
        calls == okCalls[p]
    IN  /\ Len(vs) = Len(calls)
        /\ \A j \in 1..Len(vs) :
             IF j = 1 THEN vs[j].change_summary = <<"Initial record">>
             ELSE /\ vs[j].change_summary # <<"Initial record">>
                  /\ \E tie \in Ties :
                       vs[j].change_summary =
                         _get_change_summary([found |-> TRUE, rec |-> calls[j - 1]],
                                             calls[j], tie)

\* Three upserts of P1 whose third snapshot repeats the second and differs
\* from the first: the third summary reports no change.
C18_Witness ==
  /\ Len(okCalls["P1"]) = 3
  /\ okCalls["P1"][1] # okCalls["P1"][3]
  /\ okCalls["P1"][2] = okCalls["P1"][3]
  /\ Len(db.versions) = 3
  /\ db.versions[1].change_summary = <<"Initial record">>
  /\ db.versions[2].change_summary \notin {<<"Initial record">>, <<"No significant changes">>}
  /\ db.versions[3].change_summary = <<"No significant changes">>

\* The summary C19 describes for an old and a new snapshot: the flags that
\* fire, in order, with the confidence flag exactly when the two
\* profile_confidence values differ by more than 0.05.
C19_ClaimedSummary(old_rec, new_rec) ==
  LET flags ==
        (IF Abs(QaConf(old_rec, 0) - QaConf(new_rec, 0)) > 50
           THEN <<"confidence">> ELSE <<>>)
        \o (IF QaDecision(old_rec, "") # QaDecision(new_rec, "")
              THEN <<"decision">> ELSE <<>>)
        \o (IF old_rec.address # new_rec.address THEN <<"address updated">> ELSE <<>>)
        \o (IF old_rec.phone # new_rec.phone THEN <<"phone updated">> ELSE <<>>)
        \o (IF old_rec.specialty # new_rec.specialty
              THEN <<"specialty updated">> ELSE <<>>)
  IN  IF flags # <<>> THEN flags ELSE <<"No significant changes">>

\* C19 as claimed: the version row of every non-initial upsert carries
\* exactly the flags the claim describes for the preceding and the new
\* snapshot, and "No significant changes" when none fires.
C19_FlagsAsClaimed ==
  \A p \in StorePIDs :
    LET vs == RowsOf(db.versions, p)
        calls == okCalls[p]
    IN  \A j \in 2..Len(vs) :
          j <= Len(calls) =>
            vs[j].change_summary = C19_ClaimedSummary(calls[j - 1], calls[j])

\* C20: an upsert that returns adds exactly one versions row, for its
\* provider_id, after the existing rows and leaves every existing versions
\* row and the providers rows of every other provider_id as they were; an
\* upsert that raises leaves both tables as they were.
C20_VersionsAppendOnly ==
  [][IF lastCall'.raised THEN db' = db
     ELSE /\ Len(db'.versions) = Len(db.versions) + 1
          /\ SubSeq(db'.versions, 1, Len(db.versions)) = db.versions
          /\ db'.versions[Len(db'.versions)].provider_id = lastCall'.provider_id
          /\ \A q \in StorePIDs \ {lastCall'.provider_id} :
               RowsOf(db'.providers, q) = RowsOf(db.providers, q)]_vars

\* A second upsert of P2 that returned, on a store that also holds P1.
C20_Witness ==
  /\ lastCall.made /\ ~lastCall.raised
  /\ lastCall.provider_id = "P2"
  /\ Len(RowsOf(db.versions, "P2")) = 2
  /\ Len(RowsOf(db.versions, "P1")) = 1
  /\ Len(RowsOf(db.providers, "P1")) = 1

\* C21 as claimed: in a directory run on a batch, the AUTO, REVIEW and HOLD
\* groups the loop builds hold between them every record of the batch, each
\* record in the one group of its qa.decision.
C21_BatchPartitioned ==
  (io.stage = "directory" /\ io.result # "returned_early") =>
    /\ io.auto_ids = IdsWith(files.qa.content, "AUTO")
    /\ io.review_rows = IdsWith(files.qa.content, "REVIEW")
    /\ io.hold_rows = IdsWith(files.qa.content, "HOLD")
    /\ Len(io.auto_ids) + Len(io.review_rows) + Len(io.hold_rows)
         = Len(files.qa.content)

\* The identity reasons of a reasons list, in order.
IdentityReasons(reasons) ==
  LET IsId(r) == r \in {"missing_npi", "npi_unverified", "low_identity_confidence"}
  IN  SelectSeq(reasons, IsId)

\* C22 as claimed: the reasons decide attaches hold exactly one identity
\* reason when the identity component is below 0.70 (missing_npi for
\* NPI_MISSING, npi_unverified for NPI_PROVIDED_UNVERIFIED,
\* low_identity_confidence otherwise) and none when it is 0.70 or above.
C22_IdentityReason ==
  qaOut.status = "ok" =>
    IdentityReasons(qaOut.rec.qa.reasons) =
      IF qaOut.rec.qa.component_scores.identity >= 700 THEN <<>>
      ELSE IF qaRec.identity_status = "NPI_MISSING" THEN <<"missing_npi">>
      ELSE IF qaRec.identity_status = "NPI_PROVIDED_UNVERIFIED" THEN <<"npi_unverified">>
      ELSE <<"low_identity_confidence">>

ScenarioB ==
  [identity |-> 0, address |-> 0, phone |-> 0, specialty |-> 0,
   education |-> 0, services |-> 0, affiliations |-> 0]

\* A decided record with the component values of Scenario B and empty
\* services and affiliations lists.
IsScenarioB ==
  /\ qaOut.status = "ok"
  /\ qaOut.rec.qa.component_scores = ScenarioB
  /\ qaRec.enrichment.services.value = <<>>
  /\ qaRec.enrichment.affiliations.value = <<>>

HasReason(r) == \E i \in 1..Len(qaOut.rec.qa.reasons) : qaOut.rec.qa.reasons[i] = r

\* C24 as claimed: every Scenario B record scores 0.0, is routed HOLD and has
\* low_identity_confidence, low_address_confidence, no_services_listed and
\* no_affiliations among its reasons.
C24_ScenarioB_Claimed ==
  IsScenarioB =>
    /\ qaOut.rec.qa.profile_confidence = 0
    /\ qaOut.rec.qa.decision = "HOLD"
    /\ HasReason("low_identity_confidence")
    /\ HasReason("low_address_confidence")
    /\ HasReason("no_services_listed")
    /\ HasReason("no_affiliations")

\* C24 amended: every Scenario B record scores 0.0, is routed HOLD and has
\* low_address_confidence, no_services_listed and no_affiliations among its
\* reasons, together with exactly one identity reason: missing_npi when
\* identity_status is NPI_MISSING, npi_unverified when it is
\* NPI_PROVIDED_UNVERIFIED, low_identity_confidence otherwise.
C24_ScenarioB ==
  IsScenarioB =>
    /\ qaOut.rec.qa.profile_confidence = 0
    /\ qaOut.rec.qa.decision = "HOLD"
    /\ IdentityReasons(qaOut.rec.qa.reasons) =
         IF qaRec.identity_status = "NPI_MISSING" THEN <<"missing_npi">>
         ELSE IF qaRec.identity_status = "NPI_PROVIDED_UNVERIFIED"
           THEN <<"npi_unverified">>
         ELSE <<"low_identity_confidence">>
    /\ HasReason("low_address_confidence")
    /\ HasReason("no_services_listed")
    /\ HasReason("no_affiliations")

\* A Scenario B record without a supplied identifier.
C24_Witness ==
  /\ IsScenarioB
  /\ qaRec.identity_status = "NPI_MISSING"
  /\ HasReason("missing_npi")

\* C23: every validated record of a row whose npi is empty or blank has
\* identity_status NPI_MISSING and identity confidence at most 0.60, whatever
\* the registry, address and place lookups would return.
C23_ScenarioD ==
  (io.stage = "validation" /\ ~io.raised) =>
    \A i \in 1..Len(csv.rows) :
      csv.rows[i].npi \in {"", "  "} =>
        /\ files.validated.content[i].identity_status = "NPI_MISSING"
        /\ files.validated.content[i].confidence.identity <= 600

\* A row with a blank npi whose address and place lookups both returned
\* data, with a registry that would answer.
C23_Witness ==
  /\ io.stage = "validation" /\ ~io.raised
  /\ Len(csv.rows) >= 1
  /\ csv.rows[1].npi = "  "
  /\ io.outcomes[1].npi.resp = "ok"
  /\ io.outcomes[1].geo.resp = "ok"
  /\ io.outcomes[1].place.resp = "ok"
  /\ files.validated.content[1].sources.google_address
  /\ files.validated.content[1].identity_status = "NPI_MISSING"

\* C25: a row of the CSV that carries a phone keeps a phone in its validated
\* record: normalization returns the E.164 form or the value itself, and a
\* present value is never replaced by a missing one.
C25_PhoneKept ==
  (io.stage = "validation" /\ ~io.raised) =>
    \A i \in 1..Len(csv.rows) :
      Truthy(csv.rows[i].phone) =>
        /\ files.validated.content[i].phone # None
        /\ \E p \in {csv.rows[i].phone, io.outcomes[i].place.phone,
                     io.outcomes[i].npi.data.phone} :
             /\ Truthy(p)
             /\ files.validated.content[i].phone \in {p, E164(p)}

ScenarioC ==
  [identity |-> 900, address |-> 600, phone |-> 500, specialty |-> 600,
   education |-> 0, services |-> 0, affiliations |-> 0]

\* C26: a record with the component values of Scenario C (identity 0.9,
\* address 0.6, phone 0.5, specialty 0.6, the rest 0) gets profile_confidence
\* 0.56 and decision HOLD.
C26_ScenarioC ==
  (qaOut.status = "ok" /\ qaOut.rec.qa.component_scores = ScenarioC) =>
    /\ qaOut.rec.qa.profile_confidence = 560
    /\ qaOut.rec.qa.profile_confidence < TH_REVIEW
    /\ qaOut.rec.qa.decision = "HOLD"

\* A decided Scenario C record under the default thresholds.
C26_Witness ==
  /\ qaOut.status = "ok"
  /\ qaOut.rec.qa.component_scores = ScenarioC
  /\ env = <<>>
  /\ qaOut.rec.qa.decision = "HOLD"

\* C27: for both values of has_npi, calculate_confidence returns 0.70 when
\* only the mapping value is present, 0.75 when only the registry value is
\* present, and 0.40 when none of the three values is present.
C27_SingleSource ==
  confOut.status = "ok" =>
    LET n == Truthy(confArgs.npi_val)
        g == Truthy(confArgs.google_val)
        c == Truthy(confArgs.csv_val)
    IN  /\ (~n /\ g /\ ~c) => confOut.value = 700
        /\ (n /\ ~g /\ ~c) => confOut.value = 750
        /\ (~n /\ ~g /\ ~c) => confOut.value = 400

\* A call with only the mapping value present and has_npi false.
C27_Witness ==
  /\ confOut.status = "ok"
  /\ confArgs.npi_val = None
  /\ confArgs.google_val = "A2"
  /\ confArgs.csv_val = ""
  /\ ~confArgs.has_npi
  /\ confOut.value = 700

EnrichmentInUnitInterval(rec) ==
  \A f \in {"education", "specialty", "services", "affiliations"} :
    EnrichConf(rec, f) \in 0..1000

\* C29: a decided record with identity_status NPI_MISSING and identity
\* confidence 0.6 (what validate_providers writes without registry data),
\* address and phone confidences and enrichment confidences in [0, 1], has
\* profile_confidence below TH_AUTO and is not routed AUTO.
C29_MissingNeverAuto ==
  (/\ qaOut.status = "ok"
   /\ qaRec.identity_status = "NPI_MISSING"
   /\ qaRec.confidence.identity = 600
   /\ qaRec.confidence.address \in 0..1000
   /\ qaRec.confidence.phone \in 0..1000
   /\ EnrichmentInUnitInterval(qaRec)) =>
    /\ qaOut.rec.qa.profile_confidence < TH_AUTO
    /\ qaOut.rec.qa.decision # "AUTO"

\* The highest such record: every other confidence at 1.0, score 0.84.
C29_Witness ==
  /\ qaOut.status = "ok"
  /\ qaRec.identity_status = "NPI_MISSING"
  /\ qaRec.confidence = [identity |-> 600, address |-> 1000, phone |-> 1000]
  /\ \A f \in {"education", "specialty", "services", "affiliations"} :
       EnrichConf(qaRec, f) = 1000
  /\ qaOut.rec.qa.profile_confidence = 840
  /\ qaOut.rec.qa.decision = "REVIEW"

\* C30 as claimed: after a directory run that completed, the exported
\* snapshot (directory.json and directory.csv) holds exactly the providers
\* whose canonical decision is AUTO: those stored by earlier runs included,
\* and none whose latest upsert made it REVIEW or HOLD.
C30_SnapshotIsAuto ==
  (io.stage = "directory" /\ io.result = "completed") =>
    /\ files.directory_json.state = "ok"
    /\ files.directory_json.content = LatestJsons(export_rows(db))
    /\ files.directory_csv.content = Ids(export_rows(db))

====
